---- MODULE Spec2Model ----
(***************************************************************************)
(* Model of events.go of auto-proxy: createRoutes (concurrent inspection   *)
(* of the listed containers and assembly of a Routes snapshot) and         *)
(* watchEvents (the connect / ping / subscribe / select loop that calls    *)
(* createRoutes and hands each snapshot to updateFunc).                     *)
(***************************************************************************)
EXTENDS Integers, Sequences, FiniteSets, TLC

\* Largest number of running containers in the daemon.
MaxContainers == 2

Nil == 0
Wildcard == "0.0.0.0"

\* The -ports flag after strings.Split(*ports, ","), in list order.
PortCandidates == <<"80", "8080">>

\* fmt.Sprintf("%s/tcp", port).
PortDef(port) == port \o "/tcp"

Binding(ip, port) == [HostIP |-> ip, HostPort |-> port]

\* The containers the daemon may be running, by ID: what InspectContainer
\* returns for each (Name, Config.Env, NetworkSettings, Node).
Containers ==
    [ web |->    \* declared port, no binding, bridge address
        [Name |-> "/web", Env |-> << <<"VIRTUAL_HOST", "foo">> >>,
         Ports |-> ("8080/tcp" :> << >>),
         IPAddress |-> "172.17.0.2", Node |-> FALSE, Networks |-> << >>],
      swarm |->  \* wildcard binding, then a binding on a host address
        [Name |-> "/swarm", Env |-> << <<"PATH", "/bin">>, <<"VIRTUAL_HOST", "foo">> >>,
         Ports |-> ("8080/tcp" :> << Binding(Wildcard, "32768"), Binding("10.0.0.5", "32769"),
                                     Binding("10.0.0.6", "32768") >>),
         IPAddress |-> "172.17.0.3", Node |-> TRUE, Networks |-> << >>],
      udp |->    \* no candidate port declared as a TCP port
        [Name |-> "/udp", Env |-> << <<"VIRTUAL_HOST", "bar">> >>,
         Ports |-> ("8080/udp" :> << Binding("10.0.0.5", "32768") >>),
         IPAddress |-> "172.17.0.4", Node |-> FALSE, Networks |-> << >>],
      anyif |->  \* binding with an empty host address
        [Name |-> "/anyif", Env |-> << <<"VIRTUAL_HOST", "bar">> >>,
         Ports |-> ("80/tcp" :> << Binding("", "32768") >>),
         IPAddress |-> "172.17.0.5", Node |-> FALSE, Networks |-> << >>],
      remote |-> \* remote-node container with a wildcard binding only
        [Name |-> "/remote", Env |-> << <<"VIRTUAL_HOST", "baz">> >>,
         Ports |-> ("80/tcp" :> << Binding(Wildcard, "32768") >>),
         IPAddress |-> "", Node |-> TRUE,
         Networks |-> ("overlay" :> "10.1.0.2")],
      multi |->  \* no bridge address, several attached networks
        [Name |-> "/multi", Env |-> << <<"VIRTUAL_HOST", "baz">> >>,
         Ports |-> ("80/tcp" :> << >> @@ "8080/tcp" :> << >>),
         IPAddress |-> "", Node |-> FALSE,
         Networks |-> ("none" :> "" @@ "back" :> "10.1.0.2" @@ "front" :> "10.2.0.2")],
      nohost |-> \* explicit port, no host key
        [Name |-> "/nohost", Env |-> << <<"VIRTUAL_PORT", "3000">> >>,
         Ports |-> ("8080/tcp" :> << >>),
         IPAddress |-> "172.17.0.8", Node |-> FALSE, Networks |-> << >>],
      noport |-> \* explicit port whose binding has an empty host port
        [Name |-> "/noport", Env |-> << <<"VIRTUAL_HOST", "qux">>, <<"VIRTUAL_PORT", "3000">> >>,
         Ports |-> ("8080/tcp" :> << >> @@ "3000/tcp" :> << Binding("10.0.0.7", "") >>),
         IPAddress |-> "172.17.0.9", Node |-> FALSE, Networks |-> << >>] ]

ContainerIDs == DOMAIN Containers

\* client.InspectContainer(id), when it succeeds.
InspectContainer(id) == Containers[id]

---------------------------------------------------------------------------
(* Route builder and Routes table, after the data model: a route has a host *)
(* key and an upstream {ip, port, container}; a snapshot maps host key to   *)
(* route.                                                                   *)

NewRouteBuilder == [Host |-> "", IP |-> "", Port |-> "", Container |-> ""]

\* One "KEY=VALUE" declaration, given as <<KEY, VALUE>>; unknown keys are ignored.
Parse(route, kv) ==
    CASE kv[1] = "VIRTUAL_HOST" -> [route EXCEPT !.Host = kv[2]]
      [] kv[1] = "VIRTUAL_PORT" -> [route EXCEPT !.Port = kv[2]]
      [] OTHER -> route

RECURSIVE ParseAll(_, _)
ParseAll(route, env) ==
    IF env = << >> THEN route ELSE ParseAll(Parse(route, Head(env)), Tail(env))

isValid(route) == route.Host # "" /\ route.IP # "" /\ route.Port # ""

EmptyRoutes == << >>

Upstream(route) == [IP |-> route.IP, Port |-> route.Port, Container |-> route.Container]

\* routes.Add(route): the entry of the route's host key is set to the route.
Add(rs, route) ==
    [h \in (DOMAIN rs) \cup {route.Host} |->
        IF h = route.Host THEN Upstream(route) ELSE rs[h]]

---------------------------------------------------------------------------
(* createRoutes, the body of the loop over the inspected containers.        *)

\* Variant of FirstDeclared: the first candidate is the default when none is
\* declared.
RECURSIVE FirstDeclaredOrDefault(_, _)
FirstDeclaredOrDefault(candidates, ports) ==
    IF candidates = << >> THEN ""
    ELSE IF PortDef(Head(candidates)) \in DOMAIN ports \/ Len(candidates) = 1
         THEN Head(candidates)
    ELSE FirstDeclaredOrDefault(Tail(candidates), ports)

\* Lines 52-60: the first candidate port declared as a TCP port, else "".
RECURSIVE FirstDeclared(_, _)
FirstDeclared(candidates, ports) ==
    IF candidates = << >> THEN ""
    ELSE IF PortDef(Head(candidates)) \in DOMAIN ports THEN Head(candidates)
    ELSE FirstDeclared(Tail(candidates), ports)

ResolvePort(route, container) ==
    IF route.Port = ""
    THEN [route EXCEPT !.Port = FirstDeclared(PortCandidates, container.Ports)]
    ELSE route

\* Line 73: the bindings of the resolved port (none when the port is not declared).
Bindings(route, container) ==
    IF PortDef(route.Port) \in DOMAIN container.Ports
    THEN container.Ports[PortDef(route.Port)]
    ELSE << >>

\* Line 77: the test a binding must pass to be used.
UsableBinding(binding) == binding.HostIP # Wildcard

\* Lines 76-82: the first usable binding sets the address and the port.
RECURSIVE UseBinding(_, _)
UseBinding(route, bindings) ==
    IF bindings = << >> THEN route
    ELSE IF UsableBinding(Head(bindings))
         THEN [route EXCEPT !.IP = Head(bindings).HostIP, !.Port = Head(bindings).HostPort]
         ELSE UseBinding(route, Tail(bindings))

\* Lines 85-88: the bridge address of a local container.
UseBridge(route, container) ==
    IF ~container.Node /\ route.IP = ""
    THEN [route EXCEPT !.IP = container.IPAddress]
    ELSE route
\* Lines 91-98: the first non-empty address met while ranging over the Networks
\* map. Go ranges over a map in no fixed order, so each non-empty address of the
\* map can be the one that is met first.
UseNetworks(route, container) ==
    IF ~container.Node /\ route.IP = ""
    THEN LET ips == {container.Networks[n] : n \in DOMAIN container.Networks} \ {""}
         IN  IF ips = {} THEN {route} ELSE {[route EXCEPT !.IP = ip] : ip \in ips}
    ELSE {route}

\* Variant of Admitted: the isValid test of line 106 is left out.
AdmittedUnchecked(route) == route.IP # ""

\* Lines 100-108: a route without address is dropped, and so is an invalid one.
Admitted(route) == route.IP # "" /\ isValid(route)

\* Lines 48-112 for one received container: the routes the loop body can add,
\* {} when the container is skipped, else {route}; one outcome per iteration
\* order of the Networks map.
BuildRoute(container) ==
    LET parsed == ParseAll(NewRouteBuilder, container.Env)
        ported == ResolvePort(parsed, container)
    IN  IF ported.Port = "" THEN {{}}
        ELSE LET named == [ported EXCEPT !.Container = container.Name]
                 bound == UseBinding(named, Bindings(named, container))
                 bridged == UseBridge(bound, container)
             IN  {IF Admitted(r) THEN {r} ELSE {} : r \in UseNetworks(bridged, container)}

\* Lines 106-112: routes.Add for the outcome of one container.
AddAll(rs, out) == IF out = {} THEN rs ELSE Add(rs, CHOOSE r \in out : TRUE)
---------------------------------------------------------------------------
(* State.                                                                   *)

VARIABLES
    world,       \* IDs of the running containers (what ListContainers returns)
    updateFunc,  \* TRUE when watchEvents was given a non-nil updateFunc
    pc,          \* position of the control task in watchEvents / createRoutes
    caller,      \* call site of the running createRoutes: "connect" or "event"
    client,      \* watchEvents: client, Nil or a handle
    eventChan,   \* watchEvents: eventChan, Nil before the first make
    watching,    \* watchEvents: watching
    listeners,   \* daemon side: registered event listeners <<handle, channel>>
    routes,      \* watchEvents: routes
    err,         \* err of the last connect or createRoutes (TRUE: non-nil)
    crRoutes,    \* createRoutes: routes under construction
    tasks,       \* createRoutes: state of the inspection goroutine of each ID
    chClosed,    \* createRoutes: ch has been closed
    delivered,   \* consumer side: the snapshot updateFunc was last called with
    lastPass,    \* history: the last createRoutes call that returned no error
    owed,        \* history: successful passes not yet handed to updateFunc
    cbActive,    \* history: updateFunc invocations that have not returned
    outage,      \* history: a ping failed and no pass on a new handle followed
    trail        \* history: the last operation of the control task

vars == <<world, updateFunc, pc, caller, client, eventChan, watching,
          listeners, routes, err, crRoutes, tasks, chClosed, delivered, lastPass,
          owed, cbActive, outage, trail>>

ctl == <<client, eventChan, watching, listeners>>
pass == <<crRoutes, tasks, chClosed>>
hist == <<delivered, lastPass, owed, cbActive, outage>>
fixed == <<world, updateFunc>>

Worlds == {w \in SUBSET ContainerIDs : Cardinality(w) <= MaxContainers}

Idle == [id \in world |-> "idle"]

Init ==
    /\ world \in Worlds
    /\ updateFunc \in BOOLEAN
    /\ pc = "outer"
    /\ caller = "connect"
    /\ client = Nil
    /\ eventChan = Nil
    /\ watching = FALSE
    /\ listeners = {}
    /\ routes = EmptyRoutes
    /\ err = FALSE
    /\ crRoutes = EmptyRoutes
    /\ tasks = [id \in world |-> "idle"]
    /\ chClosed = FALSE
    /\ delivered = [any |-> FALSE, routes |-> EmptyRoutes]
    /\ lastPass = [any |-> FALSE, ok |-> {}, routes |-> EmptyRoutes]
    /\ owed = 0
    /\ cbActive = 0
    /\ outage = FALSE
    /\ trail = "entry"

---------------------------------------------------------------------------
(* createRoutes.                                                            *)

\* Lines 18-25: ListContainers; on error the named results (nil, err) are
\* returned at once, else one goroutine per container is started.
List ==
    /\ pc = "list"
    /\ \E ok \in BOOLEAN :
        IF ok
        THEN /\ tasks' = [id \in world |-> "inspect"]
             /\ chClosed' = FALSE
             /\ crRoutes' = EmptyRoutes
             /\ err' = FALSE
             /\ pc' = "collect"
             /\ trail' = "listOk"
             /\ UNCHANGED routes
        ELSE /\ routes' = EmptyRoutes
             /\ err' = TRUE
             /\ pc' = "publish"
             /\ trail' = "listFail"
             /\ UNCHANGED pass
    /\ outage' = (outage /\ caller # "connect")
    /\ UNCHANGED <<fixed, caller, ctl, delivered, lastPass, owed, cbActive>>

\* Variant of ErrAfterInspect: the goroutine assigns the err of createRoutes.
ErrShared(e, ok) == e \/ ~ok

\* Lines 31-35: err of the goroutine is its own variable; the err that
\* createRoutes returns is not touched by an inspection.
ErrAfterInspect(e, ok) == e

\* Lines 29-35: InspectContainer in the goroutine of id; on error it returns
\* (wg.Done), else it goes on to send the container on ch.
Inspect(id) ==
    /\ pc = "collect"
    /\ tasks[id] = "inspect"
    /\ \E ok \in BOOLEAN :
        /\ tasks' = [tasks EXCEPT ![id] = IF ok THEN "send" ELSE "failed"]
        /\ err' = ErrAfterInspect(err, ok)
    /\ UNCHANGED <<fixed, pc, caller, ctl, routes, crRoutes, chClosed, hist, trail>>

\* Lines 36 and 47-113: the goroutine of id sends on the unbuffered ch, the
\* range loop receives the container and runs its body; the goroutine ends.
Receive(id) ==
    /\ pc = "collect"
    /\ tasks[id] = "send"
    /\ \E out \in BuildRoute(InspectContainer(id)) :
        crRoutes' = AddAll(crRoutes, out)
    /\ tasks' = [tasks EXCEPT ![id] = "done"]
    /\ UNCHANGED <<fixed, pc, caller, ctl, routes, err, chClosed, hist, trail>>

\* Variant of wgCount: wg.Done is reached before the inspection, not after
\* the send.
wgCountDoneFirst == Cardinality({id \in world : tasks[id] = "send"})

\* Variant of wgCount: wg.Done is reached before the send on ch.
wgCountDoneBeforeSend == Cardinality({id \in world : tasks[id] = "inspect"})

\* Variant of wgCount: the error return of the goroutine skips wg.Done.
wgCountNoDoneOnError ==
    Cardinality({id \in world : tasks[id] \in {"inspect", "send", "failed"}})

\* wg counter: goroutines that have not reached wg.Done.
wgCount == Cardinality({id \in world : tasks[id] \in {"inspect", "send"}})

\* Lines 40-43: wg.Wait() returns when the counter is zero, then close(ch).
CloseCh ==
    /\ pc = "collect"
    /\ ~chClosed
    /\ wgCount = 0
    /\ chClosed' = TRUE
    /\ UNCHANGED <<fixed, pc, caller, ctl, routes, err, crRoutes, tasks, hist, trail>>

\* Lines 47, 115 and 133 / 186: the range loop ends on the closed channel and
\* createRoutes returns (routes, nil), assigned to routes, err of watchEvents.
Return ==
    /\ pc = "collect"
    /\ chClosed
    /\ routes' = crRoutes
    /\ pc' = "publish"
    /\ lastPass' = IF err THEN lastPass
                    ELSE [any |-> TRUE, ok |-> {id \in world : tasks[id] = "done"},
                          routes |-> crRoutes]
    /\ owed' = IF updateFunc /\ ~err THEN owed + 1 ELSE owed
    /\ crRoutes' = EmptyRoutes
    /\ tasks' = Idle
    /\ chClosed' = FALSE
    /\ UNCHANGED <<fixed, caller, ctl, err, delivered, cbActive, outage, trail>>
---------------------------------------------------------------------------
(* watchEvents.                                                             *)

\* Handles and channels are told apart by a number. A new one gets the least
\* number that no registered listener refers to: a handle or channel that no
\* listener refers to cannot be told from a new one once the variable that
\* held it is overwritten.
Fresh(used) ==
    CHOOSE n \in 1..(Cardinality(used) + 1) :
        n \notin used /\ \A m \in 1..(n - 1) : m \in used

\* Line 125: the handle docker.NewClientFromEnv returns.
NextHandle == Fresh({l[1] : l \in listeners})

\* Line 142: the channel make returns.
NextChan == Fresh({l[2] : l \in listeners})

\* Line 124, client == nil: the ping is not evaluated.
OuterNil ==
    /\ pc = "outer"
    /\ client = Nil
    /\ pc' = "connect"
    /\ UNCHANGED <<fixed, caller, ctl, routes, err, pass, hist, trail>>

\* Line 124, client != nil: client.Ping() == nil leads into the connect
\* block, a failed ping skips it.
OuterPing ==
    /\ pc = "outer"
    /\ client # Nil
    /\ \E ok \in BOOLEAN :
        /\ pc' = IF ok THEN "connect" ELSE "mkchan"
        /\ trail' = IF ok THEN "pingOk" ELSE "pingFail"
        /\ outage' = (outage \/ ~ok)
    /\ UNCHANGED <<fixed, caller, ctl, routes, err, pass, delivered, lastPass, owed, cbActive>>

\* Lines 125-133: docker.NewClientFromEnv; on error (nil, err) is assigned and
\* the loop sleeps; on success createRoutes is called with the new client.
Connect ==
    /\ pc = "connect"
    /\ \E ok \in BOOLEAN :
        IF ok
        THEN /\ client' = NextHandle
             /\ err' = FALSE
             /\ pc' = "list"
             /\ caller' = "connect"
             /\ trail' = "connectOk"
        ELSE /\ client' = Nil
             /\ err' = TRUE
             /\ pc' = "sleepConnect"
             /\ trail' = "connectFail"
             /\ UNCHANGED caller
    /\ UNCHANGED <<fixed, eventChan, watching, listeners, routes, pass, hist>>

\* Lines 128-129, 158-159, 166-167: time.Sleep(ReconnectTime), then continue
\* of the outer loop, break of the inner loop, continue of the inner loop.
Sleep ==
    /\ pc \in {"sleepConnect", "sleepPing", "sleepSub"}
    /\ pc' = IF pc = "sleepSub" THEN "inner" ELSE "outer"
    /\ trail' = "sleep"
    /\ UNCHANGED <<fixed, caller, ctl, routes, err, pass, hist>>

\* Variant of ShouldUpdate: the error of the pass is not looked at.
ShouldUpdateAlways(e, f) == f

\* Variant of ShouldUpdate: the test of the error is inverted.
ShouldUpdateInverted(e, f) == e /\ f

\* Lines 137 and 190: the condition under which updateFunc is called.
ShouldUpdate(e, f) == ~e /\ f

\* Variant of AfterCall: updateFunc is started and not waited for.
AfterCallAsync(c) == IF c = "connect" THEN "mkchan" ELSE "inner"

\* Where the control task is after calling updateFunc: the call is
\* synchronous, the task waits for it to return.
AfterCall(c) == "callback"

\* Variant of AfterPass: after the pass on connect the outer loop is
\* continued.
AfterPassContinue(c) == IF c = "connect" THEN "outer" ELSE "inner"

\* Where the control task goes on after lines 133-139 / 186-192.
AfterPass(c) == IF c = "connect" THEN "mkchan" ELSE "inner"

\* Lines 138 and 191: updateFunc(routes) is called.
CallUpdate ==
    /\ pc = "publish"
    /\ ShouldUpdate(err, updateFunc)
    /\ delivered' = [any |-> TRUE, routes |-> routes]
    /\ cbActive' = cbActive + 1
    /\ owed' = owed - 1
    /\ pc' = AfterCall(caller)
    /\ trail' = "update"
    /\ UNCHANGED <<fixed, caller, ctl, routes, err, pass, lastPass, outage>>

\* Lines 137 and 190, condition false: updateFunc is not called.
SkipUpdate ==
    /\ pc = "publish"
    /\ ~ShouldUpdate(err, updateFunc)
    /\ pc' = AfterPass(caller)
    /\ UNCHANGED <<fixed, caller, ctl, routes, err, pass, hist, trail>>

\* updateFunc returns to lines 139 / 192.
UpdateReturn ==
    /\ cbActive > 0
    /\ cbActive' = cbActive - 1
    /\ pc' = IF pc = "callback" THEN AfterPass(caller) ELSE pc
    /\ UNCHANGED <<fixed, caller, ctl, routes, err, pass, delivered, lastPass, owed, outage, trail>>

\* Lines 142-145: a new eventChan, watching := false.
MakeChan ==
    /\ pc = "mkchan"
    /\ eventChan' = NextChan
    /\ watching' = FALSE
    /\ pc' = "inner"
    /\ UNCHANGED <<fixed, caller, client, listeners, routes, err, pass, hist, trail>>

\* Lines 147-149: client == nil breaks the inner loop.
InnerNil ==
    /\ pc = "inner"
    /\ client = Nil
    /\ pc' = "outer"
    /\ UNCHANGED <<fixed, caller, ctl, routes, err, pass, hist, trail>>

\* Lines 153-157: what a failed ping does to client, watching and the
\* registered listeners.
OnPingFail(c, w, ls) ==
    IF w THEN [client |-> Nil, watching |-> FALSE, listeners |-> ls \ {<<c, eventChan>>}]
    ELSE [client |-> c, watching |-> w, listeners |-> ls]

\* Lines 150-162: client.Ping(); on error the teardown of lines 153-157 and
\* the sleep; else on to AddEventListener or to the select.
InnerPing ==
    /\ pc = "inner"
    /\ client # Nil
    /\ \E ok \in BOOLEAN :
        IF ok
        THEN /\ pc' = IF watching THEN "select" ELSE "subscribe"
             /\ trail' = "pingOk"
             /\ UNCHANGED <<client, watching, listeners, outage>>
        ELSE /\ LET after == OnPingFail(client, watching, listeners)
                IN  /\ client' = after.client
                    /\ watching' = after.watching
                    /\ listeners' = after.listeners
             /\ pc' = "sleepPing"
             /\ trail' = "pingFail"
             /\ outage' = TRUE
    /\ UNCHANGED <<fixed, caller, eventChan, routes, err, pass, delivered, lastPass, owed, cbActive>>

\* Variant of SubscribeFails: ErrListenerAlreadyExists is not excepted.
SubscribeFailsOnAnyError(res) == res # "ok"

\* Line 164: err != nil && err != docker.ErrListenerAlreadyExists.
SubscribeFails(res) == res \notin {"ok", "exists"}

\* Lines 163-171: client.AddEventListener(eventChan); nil and
\* ErrListenerAlreadyExists set watching, any other error sleeps and retries.
Subscribe ==
    /\ pc = "subscribe"
    /\ \E res \in {"ok", "exists", "error"} :
        IF SubscribeFails(res)
        THEN /\ pc' = "sleepSub"
             /\ trail' = IF res = "exists" THEN "subExists" ELSE "subError"
             /\ UNCHANGED <<watching, listeners>>
        ELSE /\ listeners' = listeners \cup {<<client, eventChan>>}
             /\ watching' = TRUE
             /\ pc' = "select"
             /\ trail' = IF res = "ok" THEN "subOk" ELSE "subExists"
    /\ UNCHANGED <<fixed, caller, client, eventChan, routes, err, pass, hist>>

EventStatus == {"start", "stop", "die", "create"}

\* Variant of Lifecycle: every event of a container triggers createRoutes.
LifecycleAny(status) == status \in {"start", "stop", "die", "create"}

\* Line 184: the events that trigger createRoutes.
Lifecycle(status) == status \in {"start", "stop", "die"}

\* Variant of OnNilEvent: the client handle is kept.
OnNilEventKeep(c, w, ls) ==
    [client |-> c, watching |-> FALSE, listeners |-> ls \ {<<c, eventChan>>}]

\* Variant of OnNilEvent: the listener is not removed.
OnNilEventLeak(c, w, ls) ==
    [client |-> Nil, watching |-> FALSE, listeners |-> ls]

\* Lines 176-180: what a nil event does to client, watching and the
\* registered listeners.
OnNilEvent(c, w, ls) ==
    IF w THEN [client |-> Nil, watching |-> FALSE, listeners |-> ls \ {<<c, eventChan>>}]
    ELSE [client |-> c, watching |-> w, listeners |-> ls]

\* Lines 173-196: the select. A nil event removes the listener and drops the
\* client (break leaves the select only); a lifecycle event calls
\* createRoutes; any other event and the timeout do nothing.
Select ==
    /\ pc = "select"
    /\ \E ev \in EventStatus \cup {"nil", "timeout"} :
        CASE ev = "nil" ->
               /\ LET after == OnNilEvent(client, watching, listeners)
                  IN  /\ client' = after.client
                      /\ watching' = after.watching
                      /\ listeners' = after.listeners
               /\ pc' = "inner"
               /\ trail' = "eventNil"
               /\ UNCHANGED caller
          [] ev = "timeout" ->
               /\ pc' = "inner"
               /\ trail' = "timeout"
               /\ UNCHANGED <<listeners, watching, client, caller>>
          [] OTHER ->
               /\ pc' = IF Lifecycle(ev) THEN "list" ELSE "inner"
               /\ caller' = IF Lifecycle(ev) THEN "event" ELSE caller
               /\ trail' = ev
               /\ UNCHANGED <<listeners, watching, client>>
    /\ UNCHANGED <<fixed, eventChan, routes, err, pass, hist>>

Next ==
    \/ OuterNil \/ OuterPing \/ Connect \/ Sleep
    \/ List \/ (\E id \in world : Inspect(id)) \/ (\E id \in world : Receive(id))
    \/ CloseCh \/ Return
    \/ CallUpdate \/ SkipUpdate \/ UpdateReturn
    \/ MakeChan \/ InnerNil \/ InnerPing \/ Subscribe \/ Select

Spec == Init /\ [][Next]_vars
---------------------------------------------------------------------------
(* Properties.                                                              *)

\* C1: when a createRoutes pass fails (ListContainers returns an error),
\* updateFunc is not called for that pass: neither the failing step nor the
\* step that follows it changes the snapshot the consumer holds or starts an
\* invocation of updateFunc.
C1_FailedPassKeepsSnapshot ==
    [][((pc = "list" /\ err') \/ (pc = "publish" /\ err))
          => (delivered' = delivered /\ cbActive' = cbActive)]_vars

\* C1 witness: a non-empty snapshot was delivered, a later pass failed, and the
\* loop has gone past the call site without calling updateFunc.
C1_Witness ==
    /\ delivered.any /\ delivered.routes # EmptyRoutes
    /\ trail = "listFail" /\ err /\ pc = "inner"
    /\ routes = EmptyRoutes

\* C2: with a non-nil updateFunc, every successful pass is handed to
\* updateFunc exactly once and at once: a successful pass is owed to the
\* consumer only while the control task stands at the call site, where the
\* argument is the snapshot that pass returned; everywhere else the calls made
\* equal the successful passes and the consumer holds the snapshot of the last
\* successful pass (none if there was none).
C2_OncePerSuccessfulPass ==
    updateFunc =>
        /\ owed = IF pc = "publish" /\ ~err THEN 1 ELSE 0
        /\ (pc = "publish" /\ ~err) => (lastPass.any /\ routes = lastPass.routes
                                         /\ trail = "listOk")
        /\ pc # "publish" => delivered = [any |-> lastPass.any, routes |-> lastPass.routes]

\* C2 witness: updateFunc is running with the non-empty snapshot of a pass
\* that an event triggered.
C2_Witness ==
    /\ updateFunc /\ pc = "callback" /\ caller = "event"
    /\ delivered.routes # EmptyRoutes /\ delivered.routes = lastPass.routes
\* The snapshots that createRoutes has returned or is building, and the one
\* the consumer holds.
SnapshotsInPlay == {routes, crRoutes, delivered.routes, lastPass.routes}

\* The routes of a snapshot that name the container as their upstream.
RoutesOf(rs, container) ==
    {rs[h] : h \in {k \in DOMAIN rs : rs[k].Container = container.Name}}

\* The port of lines 52-60, stated from the claim: the explicit port of the
\* route builder, else the first candidate declared as a TCP port, else "".
ResolvedPort(container) ==
    LET explicit == ParseAll(NewRouteBuilder, container.Env).Port
        declared == {i \in 1..Len(PortCandidates) :
                        PortDef(PortCandidates[i]) \in DOMAIN container.Ports}
    IN  IF explicit # "" THEN explicit
        ELSE IF declared = {} THEN ""
        ELSE PortCandidates[CHOOSE i \in declared : \A j \in declared : i <= j]

\* The bindings of the resolved port whose host address is not 0.0.0.0, as
\* positions in binding order.
NonWildcard(container) ==
    LET def == PortDef(ResolvedPort(container))
    IN  IF ResolvedPort(container) = "" \/ def \notin DOMAIN container.Ports THEN {}
        ELSE {i \in 1..Len(container.Ports[def]) :
                 container.Ports[def][i].HostIP # Wildcard}

FirstNonWildcard(container) ==
    container.Ports[PortDef(ResolvedPort(container))]
        [CHOOSE i \in NonWildcard(container) : \A j \in NonWildcard(container) : i <= j]

\* C3 (as claimed): for every container with a binding of the resolved port
\* whose host address is not 0.0.0.0, every route of that container in a
\* snapshot has the host address and host port of the first such binding.
C3_Original ==
    \A id \in world :
        LET container == InspectContainer(id)
        IN  NonWildcard(container) # {} =>
                \A rs \in SnapshotsInPlay : \A r \in RoutesOf(rs, container) :
                    /\ r.IP = FirstNonWildcard(container).HostIP
                    /\ r.Port = FirstNonWildcard(container).HostPort

\* C4 (as claimed): a pass that returns with the same containers listed and
\* the same inspections succeeded as the successful pass before it returns
\* the same snapshot.
C4_Original ==
    [][(pc = "collect" /\ pc' = "publish" /\ lastPass.any /\ lastPass'.ok = lastPass.ok)
          => routes' = lastPass.routes]_vars

Connects == {"connectOk", "connectFail"}
Pings == {"pingOk", "pingFail"}

\* C5 (as claimed): a failed ping of the inner loop, whether or not a
\* subscription is active, leaves the client handle dropped and no listener
\* registered; exactly one sleep follows, the inner loop is left, and the
\* next operation of the loop after that sleep is a connect attempt.
C5_Original ==
    [][/\ (pc = "inner" /\ pc' = "sleepPing")
            => (trail' = "pingFail" /\ client' = Nil /\ ~watching' /\ listeners' = {})
       /\ pc = "sleepPing" => (pc' = "outer" /\ trail' = "sleep" /\ client' = Nil)
       /\ (pc \in {"outer", "connect"} /\ trail = "sleep" /\ trail' # trail)
            => trail' \in Connects]_vars

\* C6: a nil event removes the listener and drops the client handle; the next
\* operation of the loop after it is a connect attempt (no sleep, ping,
\* subscribe or enumeration in between), and a sleep only ever follows a
\* failed connect, a failed ping or a failed subscribe.
C6_NilEvent ==
    [][/\ (pc = "select" /\ trail' = "eventNil")
            => (client' = Nil /\ ~watching' /\ listeners' = {} /\ pc' = "inner")
       /\ (trail = "eventNil" /\ trail' # trail) => trail' \in Connects
       /\ (trail = "eventNil" /\ pc' # pc) => pc' \in {"outer", "connect", "list", "sleepConnect"}
       /\ (trail' = "sleep" /\ trail # "sleep")
            => trail \in {"connectFail", "pingFail", "subError"}]_vars

\* C6 witness: after a nil event the loop stands at the connect attempt, no
\* other operation having been made since the event.
C6_Witness == pc = "connect" /\ trail = "eventNil" /\ client = Nil

\* C7: every route of every snapshot has a non-empty host key, a non-empty
\* upstream address and a non-empty upstream port.
C7_ValidRoutes ==
    \A rs \in SnapshotsInPlay : \A h \in DOMAIN rs :
        h # "" /\ rs[h].IP # "" /\ rs[h].Port # ""

\* C7 witness: a pass returned a non-empty snapshot although it received a
\* container whose route has no host key or no port.
C7_Witness ==
    /\ lastPass.any /\ lastPass.routes # EmptyRoutes
    /\ lastPass.ok \cap {"nohost", "noport"} # {}
    /\ delivered.routes = lastPass.routes

\* No port resolves: the route builder yields no port and no candidate port is
\* among the declared TCP ports.
Unresolvable(container) ==
    /\ ParseAll(NewRouteBuilder, container.Env).Port = ""
    /\ \A i \in 1..Len(PortCandidates) :
          PortDef(PortCandidates[i]) \notin DOMAIN container.Ports

\* C8: no snapshot holds a route whose upstream container is a container for
\* which no port resolves.
C8_NoPortNoRoute ==
    \A id \in world :
        Unresolvable(InspectContainer(id)) =>
            \A rs \in SnapshotsInPlay : RoutesOf(rs, InspectContainer(id)) = {}

\* C8 witness: a pass that received a container without resolvable port
\* returned the routes of the other containers only.
C8_Witness ==
    /\ \E id \in lastPass.ok : Unresolvable(InspectContainer(id))
    /\ lastPass.any /\ lastPass.routes # EmptyRoutes
    /\ pc = "publish"

\* C9: createRoutes returns an error exactly when ListContainers failed, then
\* with the nil snapshot and without having started any inspection; once the
\* listing succeeded no error is set, whatever the inspections return.
C9_AllOrNothing ==
    /\ pc = "publish" => (err <=> trail = "listFail")
    /\ (pc = "publish" /\ err) => routes = EmptyRoutes
    /\ pc = "collect" => ~err
    /\ pc # "collect" => (tasks = Idle /\ crRoutes = EmptyRoutes /\ ~chClosed)

\* C9 witness: a pass in which an inspection failed has returned a non-empty
\* snapshot and no error.
C9_Witness ==
    /\ pc = "publish" /\ ~err /\ trail = "listOk"
    /\ lastPass.ok # world /\ routes # EmptyRoutes

\* C10: at most one invocation of updateFunc is in progress; while it is, the
\* control task waits in it, no pass is running, no operation has been made
\* since the call, and the snapshot being delivered is the one of the pass
\* that completed last.
C10_SynchronousInOrder ==
    /\ cbActive <= 1
    /\ cbActive = 1 <=> pc = "callback"
    /\ cbActive = 1 =>
          /\ tasks = Idle /\ trail = "update"
          /\ delivered = [any |-> TRUE, routes |-> lastPass.routes]

\* C10 witness: updateFunc is running for a pass triggered by an event, after
\* an earlier delivery on connect.
C10_Witness == cbActive = 1 /\ caller = "event" /\ pc = "callback"
\* The goroutines of the running pass that have returned.
Finished == {id \in world : tasks[id] \in {"done", "failed"}}

\* C11 (as claimed): while a pass runs, the snapshot under construction holds
\* no route until every inspection goroutine of the pass has returned.
C11_Original ==
    (pc = "collect" /\ crRoutes # EmptyRoutes) => Finished = world

\* C11 (amended): routes are added to the snapshot under construction only by
\* the range loop, one received container at a time, which can happen while
\* other inspections are still running; what waits for every inspection
\* goroutine to have returned is the close of ch, and with it the return of
\* the snapshot.
C11_AssembledByReceiveOnly ==
    [][/\ crRoutes' # crRoutes =>
            /\ pc = "collect"
            /\ \/ pc' = "publish"
               \/ \E id \in world :
                    /\ tasks[id] = "send" /\ tasks' = [tasks EXCEPT ![id] = "done"]
                    /\ \E out \in BuildRoute(InspectContainer(id)) :
                          crRoutes' = AddAll(crRoutes, out)
       /\ (~chClosed /\ chClosed') => Finished = world
       /\ (pc = "collect" /\ pc' = "publish") => (chClosed /\ Finished = world)]_vars

\* C11 witness: a route is in the snapshot under construction while another
\* inspection of the same pass is still running.
C11_Witness ==
    pc = "collect" /\ crRoutes # EmptyRoutes /\ \E id \in world : tasks[id] = "inspect"
\* The snapshots the range loop can build from the containers of a set, taken
\* in any order and with any outcome of each.
RECURSIVE Assemble(_)
Assemble(ids) ==
    IF ids = {} THEN {EmptyRoutes}
    ELSE UNION {{AddAll(rs, out) : rs \in Assemble(ids \ {id}),
                                   out \in BuildRoute(InspectContainer(id))} : id \in ids}

\* C12: a failed inspection skips only its container. While a pass collects,
\* the snapshot under construction is one built from exactly the containers
\* received so far; ch is closed only when no goroutine is still inspecting or
\* waiting to send; and the pass returns no error and a snapshot built from
\* exactly the containers whose inspection succeeded.
C12_FailedInspectionSkipsOne ==
    /\ pc = "collect" =>
          /\ crRoutes \in Assemble({id \in world : tasks[id] = "done"})
          /\ chClosed => Finished = world
    /\ (pc = "publish" /\ trail = "listOk") =>
          /\ ~err
          /\ lastPass.any /\ routes = lastPass.routes
          /\ routes \in Assemble(lastPass.ok)

\* C12 witness: of two listed containers one inspection failed, and the pass
\* returned the route of the other one.
C12_Witness ==
    /\ pc = "publish" /\ trail = "listOk" /\ ~err
    /\ Cardinality(world) = 2 /\ Cardinality(lastPass.ok) = 1
    /\ routes # EmptyRoutes
---------------------------------------------------------------------------
(* One createRoutes pass on its own, with the scheduling of goroutines.     *)

\* The state in which createRoutes is entered for the first time: the first
\* connect has succeeded (lines 125-133).
PassInit ==
    /\ world \in Worlds
    /\ updateFunc \in BOOLEAN
    /\ pc = "list"
    /\ caller = "connect"
    /\ client = 1
    /\ eventChan = Nil
    /\ watching = FALSE
    /\ listeners = {}
    /\ routes = EmptyRoutes
    /\ err = FALSE
    /\ crRoutes = EmptyRoutes
    /\ tasks = [id \in world |-> "idle"]
    /\ chClosed = FALSE
    /\ delivered = [any |-> FALSE, routes |-> EmptyRoutes]
    /\ lastPass = [any |-> FALSE, ok |-> {}, routes |-> EmptyRoutes]
    /\ owed = 0
    /\ cbActive = 0
    /\ outage = FALSE
    /\ trail = "connectOk"

PassNext ==
    \/ List
    \/ (\E id \in world : Inspect(id))
    \/ (\E id \in world : Receive(id))
    \/ CloseCh
    \/ Return

\* Every list and inspect call returns, and the Go scheduler runs every
\* goroutine that can run: the goroutine calling createRoutes, the inspection
\* goroutines and the goroutine of lines 40-43.
PassFairness ==
    /\ WF_vars(List)
    /\ WF_vars(\E id \in world : Inspect(id))
    /\ WF_vars(\E id \in world : Receive(id))
    /\ WF_vars(CloseCh)
    /\ WF_vars(Return)

PassSpec == PassInit /\ [][PassNext]_vars /\ PassFairness

\* C13: every pass terminates. Once the listing has returned, every
\* inspection goroutine returns and ch is closed; ch is closed once, and only
\* when every goroutine has returned; and createRoutes returns.
C13_PassTerminates ==
    /\ (pc = "list") ~> (pc = "publish")
    /\ (pc = "collect") ~> (pc = "collect" /\ chClosed /\ Finished = world)
    /\ (pc = "collect" /\ chClosed) ~> (pc = "publish" /\ tasks = Idle)
    /\ [][(chClosed' # chClosed) =>
             IF chClosed THEN pc' = "publish" ELSE Finished = world]_vars

\* C13 witness: a pass over two containers, one inspection failed and one
\* succeeded, has returned.
C13_Witness ==
    /\ pc = "publish" /\ trail = "listOk"
    /\ Cardinality(world) = 2 /\ Cardinality(lastPass.ok) = 1
    /\ tasks = Idle /\ ~chClosed
---------------------------------------------------------------------------
(* Properties of the watch loop, continued.                                 *)

\* C14: a subscribe error other than "already subscribed" leads to one sleep
\* and back to the ping of the inner loop, then to the subscribe again, with
\* the same client handle and without watching being set or a listener being
\* registered; "already subscribed" sets watching and enters the select with
\* the same effect on the state as an error-free subscribe.
C14_SubscribeOutcomes ==
    [][/\ (pc = "subscribe" /\ trail' = "subError") =>
            /\ pc' = "sleepSub"
            /\ client' = client /\ ~watching' /\ listeners' = listeners
       /\ pc = "sleepSub" =>
            /\ pc' = "inner" /\ trail' = "sleep"
            /\ client' = client /\ client # Nil /\ ~watching'
       /\ (pc = "inner" /\ trail = "sleep" /\ trail' # trail) =>
            /\ trail' \in Pings /\ client' = client
            /\ trail' = "pingOk" => pc' = "subscribe"
       /\ (pc = "subscribe" /\ trail' \in {"subOk", "subExists"}) =>
            /\ pc' = "select" /\ watching' /\ client' = client
            /\ listeners' = listeners \cup {<<client, eventChan>>}]_vars

\* C14 witness: the sleep after a failed subscribe is over and the loop is
\* back at the ping with the client handle it had.
C14_Witness ==
    pc = "inner" /\ trail = "sleep" /\ client # Nil /\ ~watching /\ listeners = {}
\* C15: in the select a non-nil event starts a pass exactly if its status is
\* start, stop or die. An event of another status and the timeout start no
\* pass and no updateFunc call, leave the client handle, the subscription and
\* the snapshots as they are, and the next operation is the ping.
C15_OnlyLifecycleEnumerates ==
    [][/\ (pc = "select" /\ trail' \in EventStatus) =>
            /\ (pc' = "list" <=> trail' \in {"start", "stop", "die"})
            /\ pc' # "list" => pc' = "inner"
            /\ pc' = "list" => caller' = "event"
       /\ (pc = "select" /\ trail' \in {"create", "timeout"}) =>
            /\ pc' = "inner"
            /\ UNCHANGED <<client, eventChan, watching, listeners>>
            /\ UNCHANGED <<routes, err, crRoutes, tasks, chClosed>>
            /\ UNCHANGED <<delivered, lastPass, owed, cbActive>>
       /\ (trail \in {"create", "timeout"} /\ trail' # trail) => trail' \in Pings
       /\ (trail \in {"start", "stop", "die"} /\ trail' # trail) =>
            trail' \in {"listOk", "listFail"}]_vars

\* C15 witness: an event that is no lifecycle event has been received and the
\* loop is back at the ping, still watching on its handle.
C15_Witness ==
    /\ pc = "inner" /\ trail = "create"
    /\ watching /\ client # Nil /\ listeners = {<<client, eventChan>>}

\* C16: the operation after a successful connect is the listing of a pass on
\* the new handle. From there to the ping of the inner loop the handle is
\* kept and there is no sleep, no second pass, no connect and no subscribe,
\* whether the pass failed or not; the operation after the pass (and the
\* updateFunc call, if any) is the ping.
C16_PassOnConnect ==
    [][/\ (trail = "connectOk" /\ trail' # trail) => trail' \in {"listOk", "listFail"}
       /\ trail' = "connectOk" => (pc' = "list" /\ caller' = "connect" /\ client' # Nil)
       /\ (caller = "connect" /\ pc \in {"list", "collect", "publish", "callback", "mkchan"}) =>
            /\ client' = client /\ client # Nil /\ caller' = caller
            /\ pc' \in CASE pc = "list" -> {"collect", "publish"}
                         [] pc = "collect" -> {"collect", "publish"}
                         [] pc = "publish" -> {"callback", "mkchan"}
                         [] pc = "callback" -> {"mkchan"}
                         [] pc = "mkchan" -> {"inner"}
       /\ (caller = "connect" /\ pc = "inner" /\ trail \in {"listOk", "listFail", "update"}
             /\ trail' # trail) => (trail' \in Pings /\ client' = client)]_vars

\* C16 witness: the pass on connect failed and the loop stands at the ping
\* of the inner loop with the handle of that connect.
C16_Witness ==
    pc = "inner" /\ caller = "connect" /\ trail = "listFail" /\ client # Nil /\ err
---------------------------------------------------------------------------
(* The watch loop with the scheduling of its goroutines.                    *)

\* Largest number of running containers where whole runs of the loop are
\* followed.
MaxWatched == 1

\* The steps of the goroutine that runs watchEvents, outside createRoutes.
ControlNext ==
    \/ OuterNil \/ OuterPing \/ Connect \/ Sleep
    \/ CallUpdate \/ SkipUpdate
    \/ MakeChan \/ InnerNil \/ InnerPing \/ Subscribe \/ Select

\* The goroutine of watchEvents is always scheduled and each of its calls,
\* sleeps and selects returns (the select at the latest on its timeout);
\* updateFunc returns; and the goroutines of a pass are scheduled.
FairInit == Init /\ Cardinality(world) <= MaxWatched

FairSpec ==
    /\ FairInit /\ [][Next]_vars
    /\ WF_vars(ControlNext)
    /\ WF_vars(UpdateReturn)
    /\ PassFairness

NoFailure == trail \notin {"connectFail", "pingFail", "subError", "listFail"}

WatchingLive ==
    /\ pc = "select" /\ watching
    /\ client # Nil /\ <<client, eventChan>> \in listeners

\* C17 (as claimed): with a non-nil updateFunc, if from some point on no
\* connect, ping, subscribe or list fails, a snapshot is published and the
\* loop is watching with its listener registered on a live handle.
C17_Original ==
    updateFunc => (<>[]NoFailure => (<>(trail = "update") /\ <>WatchingLive))

\* C17 (amended): some step is always possible; if from some point on no
\* connect, ping, subscribe or list fails, the loop is again and again
\* watching with its listener registered on a live handle; and every pass
\* that returned without error is followed by its updateFunc call. Nothing
\* starts a pass but a connect and a start, stop or die event, so a pass that
\* failed on connect is not made up for by recovery alone.
C17_Recovery ==
    /\ [](ENABLED Next)
    /\ <>[]NoFailure => []<>WatchingLive
    /\ (updateFunc /\ pc = "publish" /\ ~err) ~>
          (cbActive = 0 /\ delivered = [any |-> TRUE, routes |-> lastPass.routes])

\* C17 witness: the listing on connect failed, the loop went on and is
\* watching on that handle, and no snapshot has been published.
C17_Witness ==
    /\ updateFunc /\ WatchingLive
    /\ err /\ ~delivered.any /\ ~lastPass.any
---------------------------------------------------------------------------
(* Properties, continued.                                                   *)

Endpoint(ip, port) == [IP |-> ip, Port |-> port]

\* The reference resolution of the claim C18: the endpoints a route of the
\* container may have; none when the container gets no route.
Reference(container) ==
    LET port == ResolvedPort(container)
        nets == {container.Networks[n] : n \in DOMAIN container.Networks} \ {""}
    IN  IF port = "" THEN {}
        ELSE IF NonWildcard(container) # {}
             THEN {Endpoint(FirstNonWildcard(container).HostIP,
                            FirstNonWildcard(container).HostPort)}
        ELSE IF container.Node THEN {}
        ELSE IF container.IPAddress # "" THEN {Endpoint(container.IPAddress, port)}
        ELSE {Endpoint(ip, port) : ip \in nets}

\* C18 (as claimed): every route of a container in a snapshot has an endpoint
\* of the reference resolution: the first non-wildcard binding of the resolved
\* port, else for a local container the bridge address or the first non-empty
\* network address with the resolved port; a remote-node container without
\* such a binding has no route.
C18_Original ==
    \A id \in world : \A rs \in SnapshotsInPlay :
        \A r \in RoutesOf(rs, InspectContainer(id)) :
            Endpoint(r.IP, r.Port) \in Reference(InspectContainer(id))
\* C19 (as claimed): after any ping failure the loop is not watching again
\* until it has created a new client handle and attempted an enumeration
\* pass on it: whenever a subscription is active, no ping has failed since
\* the last pass made on connect.
C19_Original == (watching \/ listeners # {}) => ~outage

\* C20: at most one event subscription exists; it is the one of the current
\* client handle on the current event channel, it exists exactly when the
\* loop believes it is watching, and none exists while the loop is
\* disconnected or reconnecting.
C20_SingleSubscription ==
    /\ Cardinality(listeners) <= 1
    /\ listeners \subseteq {<<client, eventChan>>}
    /\ watching <=> listeners # {}
    /\ client = Nil => listeners = {}
    /\ pc \in {"connect", "sleepConnect"} => listeners = {}

\* The loop is watching: AddEventListener succeeded for the current handle
\* on the current channel.
C20_Witness ==
    /\ watching
    /\ listeners = {<<client, eventChan>>}
    /\ client # Nil
    /\ trail = "subOk"
    /\ pc = "select"
====
